---- MODULE Spec2Model ----
(***************************************************************************)
(* Model of ems_analytics.py: the cleaning and aggregation pipeline of the *)
(* NYC EMS response-time dashboard.  The script is one straight-line run;  *)
(* each action below is one block of statements, and pc is the position of *)
(* the run.  Data frames are sequences of records, a float column holds    *)
(* <<v>> for a number and <<>> for NaN.  Columns rounded to two decimals   *)
(* are kept in hundredths, the one-decimal share table in tenths, and the  *)
(* unrounded radar scores as exact fractions <<numerator, denominator>>.   *)
(* The median, std and percentile columns and the figures' styling are not *)
(* modelled; a figure or table handed to preswald is its name in emitted.  *)
(***************************************************************************)
EXTENDS Integers, Sequences, FiniteSets

\* ---- bounds of the enumerated input (nycems.csv) ----
MaxRows == 3

\* groupby sorts the group keys; this is their lexicographic order
BoroughOrder == <<"R1", "R2", "R3">>
\* a missing borough cell of the CSV
NA == "<NA>"
NaN == <<>>

\* the rows a dataset is drawn from: raw cells of the response-time columns
\* are text, a sequence of characters
RawRowOrder ==
  <<
    [borough |-> "R1", dispatch |-> <<"0">>,         incident |-> <<"9","0">>],
    [borough |-> "R1", dispatch |-> <<"2","0","0">>, incident |-> <<"9","0">>],
    [borough |-> "R1", dispatch |-> <<"2","0","0">>, incident |-> <<"x">>],
    [borough |-> "R1", dispatch |-> <<"3","0","0">>, incident |-> <<"9","0">>],
    [borough |-> "R1", dispatch |-> <<"4","0","0">>, incident |-> <<"9","0">>],
    [borough |-> "R1", dispatch |-> <<"4","8","0">>, incident |-> <<"9","0">>],
    [borough |-> "R1", dispatch |-> <<"6","0","0">>, incident |-> <<"9","0">>],
    [borough |-> "R1", dispatch |-> <<"7","0","0">>, incident |-> <<"9","0">>],
    [borough |-> "R1", dispatch |-> <<"a","b","c">>, incident |-> <<"9","0">>],
    [borough |-> "R2", dispatch |-> <<"0">>,         incident |-> <<"9","0">>],
    [borough |-> "R2", dispatch |-> <<"2","0","0">>, incident |-> <<"9","0">>],
    [borough |-> "R2", dispatch |-> <<"3","0","0">>, incident |-> <<"9","0">>],
    [borough |-> "R2", dispatch |-> <<"4","0","0">>, incident |-> <<"x">>],
    [borough |-> "R2", dispatch |-> <<"4","8","0">>, incident |-> <<"9","0">>],
    [borough |-> "R2", dispatch |-> <<"6","0","0">>, incident |-> <<"9","0">>],
    [borough |-> "R2", dispatch |-> <<"7","0","0">>, incident |-> <<"9","0">>],
    [borough |-> "R2", dispatch |-> <<"a","b","c">>, incident |-> <<"x">>],
    [borough |-> "R3", dispatch |-> <<"2","0","0">>, incident |-> <<"9","0">>],
    [borough |-> "R3", dispatch |-> <<"4","0","0">>, incident |-> <<"9","0">>],
    [borough |-> "R3", dispatch |-> <<"7","0","0">>, incident |-> <<"9","0">>],
    [borough |-> NA,   dispatch |-> <<"2","0","0">>, incident |-> <<"9","0">>],
    [borough |-> NA,   dispatch |-> <<"a","b","c">>, incident |-> <<"9","0">>]
  >>

\* the datasets the run is started on: up to MaxRows rows, listed up to the
\* order of the rows (no modelled statement depends on row order)
RECURSIVE RowLists(_, _)
RowLists(n, from) ==
  IF n = 0 THEN { <<>> }
  ELSE { <<>> } \cup
       UNION { { <<RawRowOrder[i]>> \o rest : rest \in RowLists(n - 1, i) }
               : i \in from..Len(RawRowOrder) }

RawDatasets == RowLists(MaxRows, 1)

VARIABLES
  pc,                  \* position of the run
  raw_ems_data,        \* l.13
  original_dataset,    \* l.16
  working_dataset,     \* l.17-21
  clean_dataset,       \* l.22, l.68
  borough_stats,       \* l.45-53
  performance_metrics, \* l.56-63
  master_data,         \* l.65
  bucket_counts,       \* l.72-73
  kpi_summary,         \* l.76-88
  key_insights,        \* l.90-100
  comparison_metrics,  \* l.185-187
  perf_by_borough,     \* l.191-192
  radar,               \* l.252-269
  emitted              \* tables and figures handed to table() / plotly()

vars == << pc, raw_ems_data, original_dataset, working_dataset, clean_dataset,
           borough_stats, performance_metrics, master_data, bucket_counts,
           kpi_summary, key_insights, comparison_metrics, perf_by_borough,
           radar, emitted >>

\* ---- helpers ----
Digits == [ c \in {"0","1","2","3","4","5","6","7","8","9"} |->
            CASE c = "0" -> 0 [] c = "1" -> 1 [] c = "2" -> 2 [] c = "3" -> 3
              [] c = "4" -> 4 [] c = "5" -> 5 [] c = "6" -> 6 [] c = "7" -> 7
              [] c = "8" -> 8 [] c = "9" -> 9 ]

RECURSIVE DigitsValue(_)
DigitsValue(s) ==
  IF s = <<>> THEN 0
  ELSE 10 * DigitsValue(SubSeq(s, 1, Len(s) - 1)) + Digits[s[Len(s)]]

\* pd.to_numeric(..., errors='coerce') on one cell: text that is not a number
\* becomes NaN
to_numeric(s) ==
  IF s # <<>> /\ \A i \in 1..Len(s) : s[i] \in DOMAIN Digits
  THEN << DigitsValue(s) >>
  ELSE NaN

RECURSIVE SeqSum(_)
SeqSum(s) == IF s = <<>> THEN 0 ELSE s[1] + SeqSum(Tail(s))

RECURSIVE SeqMax(_)
SeqMax(s) ==
  IF Len(s) = 1 THEN s[1]
  ELSE LET m == SeqMax(Tail(s)) IN IF s[1] >= m THEN s[1] ELSE m

RECURSIVE SeqMin(_)
SeqMin(s) ==
  IF Len(s) = 1 THEN s[1]
  ELSE LET m == SeqMin(Tail(s)) IN IF s[1] <= m THEN s[1] ELSE m

\* .round(k): num/den rounded to the nearest integer, ties to even
Round(num, den) ==
  LET q == num \div den
      r == num % den
  IN  IF 2 * r < den THEN q
      ELSE IF 2 * r > den THEN q + 1
      ELSE IF q % 2 = 0 THEN q ELSE q + 1

\* the rows of one group of clean_dataset.groupby('borough')
Group(df, b) == SelectSeq(df, LAMBDA r : r.borough = b)

\* the group keys, in groupby's sorted order
GroupKeys(df) ==
  SelectSeq(BoroughOrder, LAMBDA b : \E i \in 1..Len(df) : df[i].borough = b)

\* ---- the run ----
Init ==
  /\ raw_ems_data \in RawDatasets
  /\ pc = "backup"
  /\ original_dataset = <<>>
  /\ working_dataset = <<>>
  /\ clean_dataset = <<>>
  /\ borough_stats = <<>>
  /\ performance_metrics = <<>>
  /\ master_data = <<>>
  /\ bucket_counts = <<>>
  /\ kpi_summary = <<>>
  /\ key_insights = <<>>
  /\ comparison_metrics = <<>>
  /\ perf_by_borough = <<>>
  /\ radar = <<>>
  /\ emitted = <<>>

\* l.16-17: the two copies of the loaded frame
Backup ==
  /\ pc = "backup"
  /\ original_dataset' = raw_ems_data
  /\ working_dataset' = raw_ems_data
  /\ pc' = "coerce"
  /\ UNCHANGED << raw_ems_data, clean_dataset, borough_stats,
                  performance_metrics, master_data, bucket_counts, kpi_summary,
                  key_insights, comparison_metrics, perf_by_borough, radar,
                  emitted >>

\* the coercion with working_dataset an alias of raw_ems_data, not a copy
CoerceAliased ==
  /\ pc = "coerce"
  /\ working_dataset' =
       [ i \in 1..Len(working_dataset) |->
           [ working_dataset[i] EXCEPT
               !.incident = to_numeric(working_dataset[i].incident),
               !.dispatch = to_numeric(working_dataset[i].dispatch) ] ]
  /\ raw_ems_data' = working_dataset'
  /\ pc' = "clean"
  /\ UNCHANGED << original_dataset, clean_dataset, borough_stats,
                  performance_metrics, master_data, bucket_counts, kpi_summary,
                  key_insights, comparison_metrics, perf_by_borough, radar,
                  emitted >>

\* l.20-21: both response-time columns of working_dataset become numeric
Coerce ==
  /\ pc = "coerce"
  /\ working_dataset' =
       [ i \in 1..Len(working_dataset) |->
           [ working_dataset[i] EXCEPT
               !.incident = to_numeric(working_dataset[i].incident),
               !.dispatch = to_numeric(working_dataset[i].dispatch) ] ]
  /\ pc' = "clean"
  /\ UNCHANGED << raw_ems_data, original_dataset, clean_dataset, borough_stats,
                  performance_metrics, master_data, bucket_counts, kpi_summary,
                  key_insights, comparison_metrics, perf_by_borough, radar,
                  emitted >>

\* dropna that looks at the dispatch column only
dropna_dispatch_only(df) == SelectSeq(df, LAMBDA r : r.dispatch # NaN)

\* dropna(subset=['dispatch_response_seconds_qy', 'borough'])
dropna(df) == SelectSeq(df, LAMBDA r : r.dispatch # NaN /\ r.borough # NA)

\* l.22
Clean ==
  /\ pc = "clean"
  /\ clean_dataset' = dropna(working_dataset)
  /\ pc' = "stats"
  /\ UNCHANGED << raw_ems_data, original_dataset, working_dataset,
                  borough_stats, performance_metrics, master_data,
                  bucket_counts, kpi_summary, key_insights, comparison_metrics,
                  perf_by_borough, radar, emitted >>

\* l.45-53: per-borough mean (2 decimals, in hundredths) and count of the
\* dispatch time, and mean of the incident time, which skips NaN cells
StatsRow(df, b) ==
  LET g  == Group(df, b)
      d  == [ i \in 1..Len(g) |-> g[i].dispatch[1] ]
      gi == SelectSeq(g, LAMBDA r : r.incident # NaN)
      ic == [ i \in 1..Len(gi) |-> gi[i].incident[1] ]
  IN  [ borough |-> b,
        avg_dispatch_sec |-> Round(100 * SeqSum(d), Len(d)),
        total_calls |-> Len(d),
        avg_incident_sec |-> IF ic = <<>> THEN NaN
                             ELSE << Round(100 * SeqSum(ic), Len(ic)) >> ]

BoroughStats ==
  /\ pc = "stats"
  /\ borough_stats' =
       LET keys == GroupKeys(clean_dataset)
       IN  [ i \in 1..Len(keys) |-> StatsRow(clean_dataset, keys[i]) ]
  /\ pc' = "metrics"
  /\ UNCHANGED << raw_ems_data, original_dataset, working_dataset,
                  clean_dataset, performance_metrics, master_data,
                  bucket_counts, kpi_summary, key_insights, comparison_metrics,
                  perf_by_borough, radar, emitted >>

\* the 5-minute rate taken with a strict comparison
meets_5min_strict(g) ==
  Round(100 * 100 * Len(SelectSeq(g, LAMBDA r : r.dispatch[1] < 300)), Len(g))

\* l.58: (x <= 300).mean() * 100, rounded to 2 decimals (hundredths of a %)
meets_5min(g) ==
  Round(100 * 100 * Len(SelectSeq(g, LAMBDA r : r.dispatch[1] <= 300)), Len(g))

\* the 8-minute rate counting only the calls between 5 and 8 minutes
meets_8min_band(g) ==
  Round(100 * 100 * Len(SelectSeq(g, LAMBDA r : r.dispatch[1] > 300
                                         /\ r.dispatch[1] <= 480)), Len(g))

\* l.59: (x <= 480).mean() * 100, rounded to 2 decimals (hundredths of a %)
meets_8min(g) ==
  Round(100 * 100 * Len(SelectSeq(g, LAMBDA r : r.dispatch[1] <= 480)), Len(g))

\* l.60: (x > 600).sum()
extreme_delays(g) == Len(SelectSeq(g, LAMBDA r : r.dispatch[1] > 600))

\* l.56-63
PerformanceMetrics ==
  /\ pc = "metrics"
  /\ performance_metrics' =
       LET keys == GroupKeys(clean_dataset)
       IN  [ i \in 1..Len(keys) |->
               LET g == Group(clean_dataset, keys[i])
               IN  [ borough |-> keys[i],
                     meets_5min |-> meets_5min(g),
                     meets_8min |-> meets_8min(g),
                     extreme_delays |-> extreme_delays(g) ] ]
  /\ pc' = "merge"
  /\ UNCHANGED << raw_ems_data, original_dataset, working_dataset,
                  clean_dataset, borough_stats, master_data, bucket_counts,
                  kpi_summary, key_insights, comparison_metrics,
                  perf_by_borough, radar, emitted >>

\* borough_stats.merge(performance_metrics, on='borough'): inner join
merge(left, right) ==
  LET hit(l) == { j \in 1..Len(right) : right[j].borough = l.borough }
      kept   == SelectSeq(left, LAMBDA l : hit(l) # {})
  IN  [ i \in 1..Len(kept) |->
          LET l == kept[i]
              r == right[CHOOSE j \in hit(l) : TRUE]
          IN  [ borough |-> l.borough,
                avg_dispatch_sec |-> l.avg_dispatch_sec,
                total_calls |-> l.total_calls,
                avg_incident_sec |-> l.avg_incident_sec,
                meets_5min |-> r.meets_5min,
                meets_8min |-> r.meets_8min,
                extreme_delays |-> r.extreme_delays ] ]

\* l.65
Merge ==
  /\ pc = "merge"
  /\ master_data' = merge(borough_stats, performance_metrics)
  /\ pc' = "bucket"
  /\ UNCHANGED << raw_ems_data, original_dataset, working_dataset,
                  clean_dataset, borough_stats, performance_metrics,
                  bucket_counts, kpi_summary, key_insights, comparison_metrics,
                  perf_by_borough, radar, emitted >>

Labels == << "Excellent (<5min)", "Good (5-8min)", "Poor (8-10min)",
             "Critical (>10min)" >>
\* the category of a value outside every bin
NoBucket == "NaN"

\* pd.cut(x, bins=[0, 300, 480, 600, inf], labels=...): right-closed bins,
\* include_lowest is left at its default False
cut(x) ==
  IF x > 0 /\ x <= 300 THEN Labels[1]
  ELSE IF x > 300 /\ x <= 480 THEN Labels[2]
  ELSE IF x > 480 /\ x <= 600 THEN Labels[3]
  ELSE IF x > 600 THEN Labels[4]
  ELSE NoBucket

\* l.68-70: the perf_bucket column is added to clean_dataset itself
PerfBucket ==
  /\ pc = "bucket"
  /\ clean_dataset' =
       [ i \in 1..Len(clean_dataset) |->
           [ borough |-> clean_dataset[i].borough,
             dispatch |-> clean_dataset[i].dispatch,
             incident |-> clean_dataset[i].incident,
             perf_bucket |-> cut(clean_dataset[i].dispatch[1]) ] ]
  /\ pc' = "counts"
  /\ UNCHANGED << raw_ems_data, original_dataset, working_dataset,
                  borough_stats, performance_metrics, master_data,
                  bucket_counts, kpi_summary, key_insights, comparison_metrics,
                  perf_by_borough, radar, emitted >>

\* clean_dataset['perf_bucket'].value_counts(): one count per category, NaN
\* cells are not counted
value_counts(df) ==
  [ l \in { Labels[k] : k \in 1..Len(Labels) } |->
      Len(SelectSeq(df, LAMBDA r : r.perf_bucket = l)) ]

\* l.72-73
BucketCounts ==
  /\ pc = "counts"
  /\ bucket_counts' = value_counts(clean_dataset)
  /\ pc' = "kpi"
  /\ UNCHANGED << raw_ems_data, original_dataset, working_dataset,
                  clean_dataset, borough_stats, performance_metrics,
                  master_data, kpi_summary, key_insights, comparison_metrics,
                  perf_by_borough, radar, emitted >>

\* l.76-88: the citywide figures; a mean over no rows is NaN, and NaN < 90
\* is false
KpiSummary ==
  /\ pc = "kpi"
  /\ kpi_summary' =
       LET n    == Len(clean_dataset)
           d    == [ i \in 1..n |-> clean_dataset[i].dispatch[1] ]
           in8  == Len(SelectSeq(clean_dataset,
                                 LAMBDA r : r.dispatch[1] <= 480))
       IN  [ total_calls |-> n,
             system_avg_min |-> IF n = 0 THEN NaN
                                ELSE << Round(10 * SeqSum(d), 60 * n) >>,
             overall_8min_rate |-> IF n = 0 THEN NaN
                                   ELSE << Round(10 * 100 * in8, n) >>,
             extreme_delays |-> extreme_delays(clean_dataset),
             status |-> IF n # 0 /\ 100 * in8 < 90 * n THEN "Below Target"
                        ELSE "Meeting Standards" ]
  /\ pc' = "insights"
  /\ UNCHANGED << raw_ems_data, original_dataset, working_dataset,
                  clean_dataset, borough_stats, performance_metrics,
                  master_data, bucket_counts, key_insights, comparison_metrics,
                  perf_by_borough, radar, emitted >>

\* Series.idxmax() / idxmin(): the first row holding the extreme value
idxmax(col) == CHOOSE i \in 1..Len(col) :
                 /\ col[i] = SeqMax(col)
                 /\ \A j \in 1..(i - 1) : col[j] # SeqMax(col)
idxmin(col) == CHOOSE i \in 1..Len(col) :
                 /\ col[i] = SeqMin(col)
                 /\ \A j \in 1..(i - 1) : col[j] # SeqMin(col)

\* l.90-100 on a master table with rows
KeyInsights ==
  /\ pc = "insights"
  /\ master_data # <<>>
  /\ key_insights' =
       LET m8 == [ i \in 1..Len(master_data) |-> master_data[i].meets_8min ]
           tc == [ i \in 1..Len(master_data) |-> master_data[i].total_calls ]
       IN  [ best_borough |-> master_data[idxmax(m8)].borough,
             worst_borough |-> master_data[idxmin(m8)].borough,
             busiest_borough |-> master_data[idxmax(tc)].borough,
             under_80 |->
               Len(SelectSeq(master_data, LAMBDA r : r.meets_8min < 8000)),
             recommendation |->
               IF 100 * Len(SelectSeq(clean_dataset,
                                      LAMBDA r : r.dispatch[1] <= 480))
                    < 85 * Len(clean_dataset)
               THEN "Resource reallocation needed"
               ELSE "Maintain current operations" ]
  /\ pc' = "overview"
  /\ UNCHANGED << raw_ems_data, original_dataset, working_dataset,
                  clean_dataset, borough_stats, performance_metrics,
                  master_data, bucket_counts, kpi_summary, comparison_metrics,
                  perf_by_borough, radar, emitted >>

\* an empty master table that is let through to the report sections
KeyInsightsSkipped ==
  /\ pc = "insights"
  /\ master_data = <<>>
  /\ pc' = "overview"
  /\ UNCHANGED << raw_ems_data, original_dataset, working_dataset,
                  clean_dataset, borough_stats, performance_metrics,
                  master_data, bucket_counts, kpi_summary, key_insights,
                  comparison_metrics, perf_by_borough, radar, emitted >>

\* l.90 on a master table without rows: idxmax() of an empty column raises,
\* and the script has no handler, so the run ends there
KeyInsightsRaise ==
  /\ pc = "insights"
  /\ master_data = <<>>
  /\ pc' = "aborted"
  /\ UNCHANGED << raw_ems_data, original_dataset, working_dataset,
                  clean_dataset, borough_stats, performance_metrics,
                  master_data, bucket_counts, kpi_summary, key_insights,
                  comparison_metrics, perf_by_borough, radar, emitted >>

\* l.107-176: the overview and detail sections hand over their tables and
\* figures; sort_values returns a new frame
Overview ==
  /\ pc = "overview"
  /\ emitted' = emitted \o << "kpi_summary", "fig_main", "key_insights",
                              "master_data", "fig_dist", "fig_scatter" >>
  /\ pc' = "comparison"
  /\ UNCHANGED << raw_ems_data, original_dataset, working_dataset,
                  clean_dataset, borough_stats, performance_metrics,
                  master_data, bucket_counts, kpi_summary, key_insights,
                  comparison_metrics, perf_by_borough, radar >>

\* l.185-188: master_data[[...]] is a new frame; avg_minutes (1 decimal, in
\* tenths) is added to that frame and avg_dispatch_sec is dropped from it
Comparison ==
  /\ pc = "comparison"
  /\ comparison_metrics' =
       [ i \in 1..Len(master_data) |->
           [ borough |-> master_data[i].borough,
             meets_5min |-> master_data[i].meets_5min,
             meets_8min |-> master_data[i].meets_8min,
             total_calls |-> master_data[i].total_calls,
             extreme_delays |-> master_data[i].extreme_delays,
             avg_minutes |-> Round(10 * master_data[i].avg_dispatch_sec,
                                   100 * 60) ] ]
  /\ emitted' = Append(emitted, "comparison_metrics")
  /\ pc' = "stacked"
  /\ UNCHANGED << raw_ems_data, original_dataset, working_dataset,
                  clean_dataset, borough_stats, performance_metrics,
                  master_data, bucket_counts, kpi_summary, key_insights,
                  perf_by_borough, radar >>

\* pd.crosstab(borough, perf_bucket, normalize='index') * 100, 1 decimal (in
\* tenths): rows with a NaN bucket are left out before the shares are taken;
\* a label without records has share 0
crosstab(df) ==
  LET in_bucket == SelectSeq(df, LAMBDA r : r.perf_bucket # NoBucket)
      keys      == GroupKeys(in_bucket)
  IN  [ i \in 1..Len(keys) |->
          LET g == Group(in_bucket, keys[i])
          IN  [ borough |-> keys[i],
                share |-> [ l \in { Labels[k] : k \in 1..Len(Labels) } |->
                   Round(10 * 100
                           * Len(SelectSeq(g, LAMBDA r : r.perf_bucket = l)),
                         Len(g)) ] ] ]

\* l.191-246: the share table, the stacked and box figures and the percentile
\* table (filtered_for_box is a copy, the percentile table a new frame)
Stacked ==
  /\ pc = "stacked"
  /\ perf_by_borough' = crosstab(clean_dataset)
  /\ emitted' = emitted \o << "fig_stacked", "fig_variability",
                              "percentile_minutes" >>
  /\ pc' = "radar"
  /\ UNCHANGED << raw_ems_data, original_dataset, working_dataset,
                  clean_dataset, borough_stats, performance_metrics,
                  master_data, bucket_counts, kpi_summary, key_insights,
                  comparison_metrics, radar >>

\* the normalised mean itself, without the "100 -"
speed_score_uninverted(avg, lo, hi) ==
  IF hi - lo = 0 THEN NaN
  ELSE << 100 * (avg - lo), hi - lo >>

\* l.255-256: 100 - (avg - min) / (max - min) * 100 in float arithmetic, where
\* 0.0 / 0.0 is NaN; avg, lo, hi are in hundredths of a second
speed_score(avg, lo, hi) ==
  IF hi - lo = 0 THEN NaN
  ELSE << 100 * (hi - lo) - 100 * (avg - lo), hi - lo >>

\* the reliability score without the "if max > 0" guard: 0.0 / 0.0 is NaN
reliability_score_unguarded(extreme, hi) ==
  IF hi # 0 THEN << 100 * hi - 100 * extreme, hi >> ELSE NaN

\* l.258: 100 - extreme / max * 100 if max > 0 else 100
reliability_score(extreme, hi) ==
  IF hi > 0 THEN << 100 * hi - 100 * extreme, hi >> ELSE << 100, 1 >>

\* l.249-276: one trace per row of the master table
Radar ==
  /\ pc = "radar"
  /\ radar' =
       LET n   == Len(master_data)
           avg == [ i \in 1..n |-> master_data[i].avg_dispatch_sec ]
           ext == [ i \in 1..n |-> master_data[i].extreme_delays ]
       IN  [ i \in 1..Len(master_data) |->
               [ name |-> master_data[i].borough,
                 meets_8min |-> master_data[i].meets_8min,
                 speed_score |-> speed_score(avg[i], SeqMin(avg), SeqMax(avg)),
                 meets_5min |-> master_data[i].meets_5min,
                 reliability_score |->
                   reliability_score(ext[i], SeqMax(ext)) ] ]
  /\ emitted' = Append(emitted, "fig_radar")
  /\ pc' = "closing"
  /\ UNCHANGED << raw_ems_data, original_dataset, working_dataset,
                  clean_dataset, borough_stats, performance_metrics,
                  master_data, bucket_counts, kpi_summary, key_insights,
                  comparison_metrics, perf_by_borough >>

\* l.279-324: the correlation figure, then the two tables that depend on what
\* the SQL queries of l.33-38 returned (fast: speedy_calls has rows, vol:
\* borough_volumes has rows); no column of the modelled frame is named like
\* a date or time, so no trend figure is drawn
Closing ==
  /\ pc = "closing"
  /\ \E fast \in BOOLEAN, vol \in BOOLEAN :
       emitted' = emitted \o << "fig_corr" >>
                    \o (IF fast THEN << "fast_examples" >> ELSE <<>>)
                    \o (IF vol THEN << "borough_volumes" >> ELSE <<>>)
  /\ pc' = "done"
  /\ UNCHANGED << raw_ems_data, original_dataset, working_dataset,
                  clean_dataset, borough_stats, performance_metrics,
                  master_data, bucket_counts, kpi_summary, key_insights,
                  comparison_metrics, perf_by_borough, radar >>

Next == Backup \/ Coerce \/ Clean \/ BoroughStats \/ PerformanceMetrics
        \/ Merge \/ PerfBucket \/ BucketCounts \/ KpiSummary \/ KeyInsights
        \/ KeyInsightsRaise \/ Overview \/ Comparison \/ Stacked \/ Radar
        \/ Closing

Spec == Init /\ [][Next]_vars

\* ---- positions of the run, for the properties ----
BeforeClean    == { "backup", "coerce", "clean" }
BeforeMerge    == BeforeClean \cup { "stats", "metrics", "merge" }
BeforeCounts   == BeforeMerge \cup { "bucket", "counts" }
ReportSections == { "overview", "comparison", "stacked", "radar", "closing",
                    "done" }
AfterStacked   == { "radar", "closing", "done" }
AfterRadar     == { "closing", "done" }

LabelSet == { Labels[k] : k \in 1..Len(Labels) }

\* a raw cell that is the text of a number
IsNumberText(s) ==
  /\ Len(s) > 0
  /\ \A i \in 1..Len(s) :
       s[i] \in { "0", "1", "2", "3", "4", "5", "6", "7", "8", "9" }

\* the raw records the cleaning is to keep
Parseable == SelectSeq(raw_ems_data,
                       LAMBDA r : IsNumberText(r.dispatch) /\ r.borough # NA)

\* the dispatch times of the surviving records of borough b
TimesOf(b) ==
  LET g == Group(clean_dataset, b) IN [ i \in 1..Len(g) |-> g[i].dispatch[1] ]

Within(b, limit) == Len(SelectSeq(TimesOf(b), LAMBDA x : x <= limit))
Beyond(b, limit) == Len(SelectSeq(TimesOf(b), LAMBDA x : x > limit))

\* m is num/den rounded to the nearest integer
Nearest(m, num, den) ==
  LET diff == m * den - num
  IN  2 * (IF diff < 0 THEN 0 - diff ELSE diff) <= den

\* the bucket the specification assigns to a dispatch time
SpecBucket(x) ==
  IF x >= 0 /\ x <= 300 THEN Labels[1]
  ELSE IF x > 300 /\ x <= 480 THEN Labels[2]
  ELSE IF x > 480 /\ x <= 600 THEN Labels[3]
  ELSE IF x > 600 THEN Labels[4]
  ELSE NoBucket

\* C1: once the bucket counts are taken, every surviving record carries the
\* one bucket of (0,300], (300,480], (480,600], (600,inf) its dispatch time
\* falls in, a time of 0 counting into the first, and the four counts add up
\* to the number of surviving records.
C1_EveryRecordInOneBucket ==
  pc \notin BeforeCounts =>
    /\ \A i \in 1..Len(clean_dataset) :
         /\ clean_dataset[i].perf_bucket \in LabelSet
         /\ clean_dataset[i].perf_bucket
              = SpecBucket(clean_dataset[i].dispatch[1])
    /\ SeqSum([ k \in 1..Len(Labels) |-> bucket_counts[Labels[k]] ])
         = Len(clean_dataset)

\* C2: a run whose cleaned incident set is empty never enters the report
\* sections and hands over no table and no figure; it ends in the raise of
\* l.90.
C2_EmptySetAborts ==
  (pc \notin BeforeClean /\ clean_dataset = <<>>) =>
    /\ pc \notin ReportSections
    /\ emitted = <<>>

C2_Witness ==
  /\ pc = "aborted"
  /\ raw_ems_data # <<>>
  /\ clean_dataset = <<>>
  /\ emitted = <<>>

\* C3: when every region of the master table has the same mean dispatch time,
\* each region's speed score is defined and equal to 100.
C3_EqualMeansScoreDefined ==
  (pc \in AfterRadar
     /\ \A i, j \in 1..Len(master_data) :
          master_data[i].avg_dispatch_sec = master_data[j].avg_dispatch_sec) =>
    \A i \in 1..Len(radar) :
      /\ radar[i].speed_score # NaN
      /\ radar[i].speed_score[1] = 100 * radar[i].speed_score[2]

\* C4: the cleaned incident set is exactly the raw records whose dispatch
\* time is the text of a number and whose borough is present, in their
\* order, with the dispatch time as that number; an unparseable cell is NaN
\* after the coercion; a record without dispatch time or borough is counted
\* in no row of the master table; an unparseable incident time alone does not
\* remove a record.
C4_CleanedExactlyParseable ==
  /\ pc \notin { "backup", "coerce" } =>
       /\ Len(working_dataset) = Len(raw_ems_data)
       /\ \A i \in 1..Len(raw_ems_data) :
            /\ IsNumberText(raw_ems_data[i].dispatch)
                 <=> working_dataset[i].dispatch # NaN
            /\ IsNumberText(raw_ems_data[i].incident)
                 <=> working_dataset[i].incident # NaN
  /\ pc \notin BeforeClean =>
       /\ Len(clean_dataset) = Len(Parseable)
       /\ \A i \in 1..Len(Parseable) :
            /\ clean_dataset[i].borough = Parseable[i].borough
            /\ clean_dataset[i].dispatch = to_numeric(Parseable[i].dispatch)
            /\ clean_dataset[i].incident = to_numeric(Parseable[i].incident)
  /\ pc \notin BeforeMerge =>
       /\ { master_data[i].borough : i \in 1..Len(master_data) }
            = { Parseable[i].borough : i \in 1..Len(Parseable) }
       /\ \A i \in 1..Len(master_data) :
            master_data[i].total_calls
              = Len(SelectSeq(Parseable,
                      LAMBDA r : r.borough = master_data[i].borough))

C4_Witness ==
  /\ pc = "done"
  /\ \E i \in 1..Len(raw_ems_data) : ~ IsNumberText(raw_ems_data[i].dispatch)
  /\ \E i \in 1..Len(raw_ems_data) : raw_ems_data[i].borough = NA
  /\ \E i \in 1..Len(clean_dataset) : clean_dataset[i].incident = NaN
  /\ Len(clean_dataset) < Len(raw_ems_data)

\* the scenario of the specification: (R1,200), (R1,400), (R2,700)
Scenario ==
  << [borough |-> "R1", dispatch |-> <<"2","0","0">>, incident |-> <<"9","0">>],
     [borough |-> "R1", dispatch |-> <<"4","0","0">>, incident |-> <<"9","0">>],
     [borough |-> "R2", dispatch |-> <<"7","0","0">>, incident |-> <<"9","0">>] >>

ScenarioResult ==
  /\ Len(master_data) = 2
  /\ master_data[1].borough = "R1"
  /\ master_data[1].meets_5min = 5000
  /\ master_data[1].meets_8min = 10000
  /\ master_data[1].total_calls = 2
  /\ master_data[2].borough = "R2"
  /\ master_data[2].meets_5min = 0
  /\ master_data[2].meets_8min = 0
  /\ master_data[2].extreme_delays = 1

\* C5 as stated: in every row of the master table meets_5min is exactly 100
\* times the share of the region's records at or under 300 s, meets_8min the
\* same at 480 s, and extreme_delays the number of its records over 600 s.
C5_RatesExact ==
  pc \notin BeforeMerge =>
    \A i \in 1..Len(master_data) :
      LET b == master_data[i].borough
          n == Len(TimesOf(b))
      IN  /\ master_data[i].meets_5min * n = 100 * 100 * Within(b, 300)
          /\ master_data[i].meets_8min * n = 100 * 100 * Within(b, 480)
          /\ master_data[i].extreme_delays = Beyond(b, 600)

\* C5 amended: the two rates are those percentages rounded to two decimals
\* (the stored hundredths are the nearest to the exact value), the count is
\* exact, and the scenario gives R1 50%, 100%, 2 calls and R2 0%, 0%, 1
\* extreme delay.
C5_RatesRounded ==
  pc \notin BeforeMerge =>
    /\ \A i \in 1..Len(master_data) :
         LET b == master_data[i].borough
             n == Len(TimesOf(b))
         IN  /\ n > 0
             /\ Nearest(master_data[i].meets_5min,
                        100 * 100 * Within(b, 300), n)
             /\ Nearest(master_data[i].meets_8min,
                        100 * 100 * Within(b, 480), n)
             /\ master_data[i].extreme_delays = Beyond(b, 600)
    /\ raw_ems_data = Scenario => ScenarioResult

C5_Witness ==
  /\ pc = "done"
  /\ raw_ems_data = Scenario
  /\ ScenarioResult

\* C6: in every row of the master table 0 <= meets_5min <= meets_8min <= 100.
C6_RatesMonotone ==
  \A i \in 1..Len(master_data) :
    /\ 0 <= master_data[i].meets_5min
    /\ master_data[i].meets_5min <= master_data[i].meets_8min
    /\ master_data[i].meets_8min <= 100 * 100

C6_Witness ==
  /\ pc = "done"
  /\ \E i \in 1..Len(master_data) :
       /\ 0 < master_data[i].meets_5min
       /\ master_data[i].meets_5min < master_data[i].meets_8min
       /\ master_data[i].meets_8min < 100 * 100

\* the mean dispatch times of the master table
Means == [ i \in 1..Len(master_data) |-> master_data[i].avg_dispatch_sec ]

\* C7: when the master table holds more than one distinct mean dispatch
\* time, the speed score is 100 for each region with the least mean, 0 for
\* each region with the greatest mean, and strictly between for the others.
C7_SpeedScoreEnds ==
  (pc \in AfterRadar /\ \E i, j \in 1..Len(Means) : Means[i] # Means[j]) =>
    /\ Len(radar) = Len(master_data)
    /\ \A i \in 1..Len(radar) :
         LET s == radar[i].speed_score
         IN  /\ radar[i].name = master_data[i].borough
             /\ s # NaN
             /\ s[2] > 0
             /\ (\A j \in 1..Len(Means) : Means[i] <= Means[j])
                   => s[1] = 100 * s[2]
             /\ (\A j \in 1..Len(Means) : Means[i] >= Means[j])
                   => s[1] = 0
             /\ (\E j, k \in 1..Len(Means) :
                    Means[j] < Means[i] /\ Means[i] < Means[k])
                   => (0 < s[1] /\ s[1] < 100 * s[2])

C7_Witness ==
  /\ pc = "done"
  /\ Len(radar) = 3
  /\ radar[1].speed_score # NaN
  /\ \E i, j, k \in 1..3 :
       /\ Means[j] < Means[i] /\ Means[i] < Means[k]
       /\ radar[j].speed_score[1] = 100 * radar[j].speed_score[2]
       /\ radar[k].speed_score[1] = 0
       /\ 0 < radar[i].speed_score[1]
       /\ radar[i].speed_score[1] < 100 * radar[i].speed_score[2]

\* the greatest number of records over 600 s that any region has
MostExtreme ==
  SeqMax([ i \in 1..Len(master_data) |-> Beyond(master_data[i].borough, 600) ])

\* C8: a region's reliability score is 100 - 100 * (its records over 600 s)
\* / (the greatest such count of any region), and 100 for every region when
\* no region has a record over 600 s.
C8_ReliabilityScore ==
  pc \in AfterRadar =>
    /\ Len(radar) = Len(master_data)
    /\ \A i \in 1..Len(radar) :
         LET s == radar[i].reliability_score
             e == Beyond(radar[i].name, 600)
         IN  /\ s # NaN
             /\ s[2] > 0
             /\ MostExtreme > 0 =>
                  s[1] * MostExtreme = (100 * MostExtreme - 100 * e) * s[2]
             /\ MostExtreme = 0 => s[1] = 100 * s[2]

C8_Witness ==
  /\ pc = "done"
  /\ Len(radar) >= 2
  /\ MostExtreme = 0
  /\ \A i \in 1..Len(radar) :
       radar[i].reliability_score[1] = 100 * radar[i].reliability_score[2]

\* the row of the share table for borough b, <<>> when it has none
ShareRows(b) == SelectSeq(perf_by_borough, LAMBDA r : r.borough = b)

\* C9: buckets and compliance metrics draw the same boundaries: a surviving
\* record is in the first bucket exactly when its dispatch time is <= 300,
\* in the first or second exactly when <= 480, in the last exactly when
\* > 600; and per region the first-bucket share of the share table is
\* meets_5min (at the one decimal the share table keeps) and the number of
\* last-bucket records is extreme_delays.
C9_SameBoundaryConvention ==
  pc \in AfterStacked =>
    /\ \A i \in 1..Len(clean_dataset) :
         LET r == clean_dataset[i]
         IN  /\ r.perf_bucket = Labels[1] <=> r.dispatch[1] <= 300
             /\ r.perf_bucket \in { Labels[1], Labels[2] }
                  <=> r.dispatch[1] <= 480
             /\ r.perf_bucket = Labels[4] <=> r.dispatch[1] > 600
    /\ \A i \in 1..Len(master_data) :
         LET b == master_data[i].borough
         IN  /\ Len(ShareRows(b)) = 1
             /\ Nearest(ShareRows(b)[1].share[Labels[1]],
                        master_data[i].meets_5min, 10)
             /\ Len(SelectSeq(Group(clean_dataset, b),
                      LAMBDA r : r.perf_bucket = Labels[4]))
                  = master_data[i].extreme_delays

\* the three fields a cleaned record is produced with
Produced(r) ==
  [ borough |-> r.borough, dispatch |-> r.dispatch, incident |-> r.incident ]

====
